---- MODULE Spec2Model ----
(***************************************************************************)
(* Block cellular automaton of Block_CA.py: the Board (grid of cells, the  *)
(* two block-origin lists, the 2x2 block rule) and the GameManager that    *)
(* advances it one generation per step().                                  *)
(***************************************************************************)
EXTENDS Integers, Sequences, FiniteSets, TLC

\* ---------------------------------------------------------------- bounds
\* GameManager.step is called at most MaxSteps times in a run.
MaxSteps == 4
\* Board.apply_block_rules is called directly at most MaxCalls times in a run.
MaxCalls == 1
\* A grid drawn with 0 < p < 1 has at most MaxAlive alive cells.
MaxAlive == 3
\* Grids drawn with 0 < p < 1 are enumerated for boards of at most this many cells.
MaxRandomCells == 16
\* Pairs of engines with grids drawn with 0 < p < 1 are enumerated for boards of
\* at most this many cells.
MaxPairCells == 9
\* The "Generations" slider gives 1 .. MaxGenerations (scaled down from
\* 1 .. 1000).
MaxGenerations == 3
\* Play/Pause pauses a run at most MaxPauses times.
MaxPauses == 1
\* Reset is pressed at most MaxResets times in a run.
MaxResets == 1
\* In a Simulator run, grids drawn with 0 < p < 1 are enumerated for boards of
\* at most this many cells.
MaxSimCells == 4
\* Values of the "Board Size" slider (scaled down from 10 .. 200).
SliderSizes == 1 .. 6
\* Steps whose blocks are taken in any order are explored for boards of at most
\* this many cells.
MaxOrderCells == 36
\* GameManager.step is taken at most MaxOrderSteps times when the block order
\* is explored.
MaxOrderSteps == 2
\* Board sizes N that are constructed.
Sizes == {2, 3, 4, 5, 6, 8}
\* Probabilities p, in percent as the probability slider gives them.
Probabilities == {0, 50, 100}

\* ------------------------------------------------------- program constants
InitModes == {"Random", "Odd Columns Alive", "Odd Diagonals Alive", "Glider"}
\* Simulator.glider, the 4 x 2 pattern stamped in Glider mode.
Glider == << <<0, 1>>, <<1, 0>>, <<1, 0>>, <<0, 1>> >>

VARIABLES
    N,              \* Board.N / GameManager.N
    p,              \* GameManager.p, in percent
    wraparound,     \* Board.wraparound
    init_mode,      \* init_mode passed to the constructors
    constructed,    \* TRUE iff Board.__init__ returned (no exception)
    pattern_origin, \* (top, left) drawn by _place_pattern, <<>> when none
    blocks_even,    \* Board.blocks_even
    blocks_odd,     \* Board.blocks_odd
    grid,           \* Board.grid, the state of the cell at each (row, col)
    current_step,   \* GameManager.current_step
    calls,          \* number of direct apply_block_rules calls so far
    prev_grid,      \* history: the grid before the last operation
    last_block,     \* history: origin of the last direct apply_block_rules call
    tilings,        \* history: [even, blocks] of every GameManager.step call
    twin,           \* grid of a second Board stepped alongside, <<>> when none
    init_grid,      \* history: the grid of the original construction
    size_slider,    \* value of the "Board Size" slider read by start_simulation
    max_steps,      \* GameManager.max_steps
    paused,         \* run_simulation: paused
    running,        \* run_simulation: running (FALSE outside the run loop)
    pauses,         \* number of presses of Play/Pause that paused the run
    resets,         \* number of presses of Reset
    in_step,        \* TRUE while Board.step is inside its loop over the blocks
    pending         \* the blocks Board.step has still to process

\* The fields of the Simulator and of its run loop.
simVars == <<size_slider, max_steps, paused, running, pauses, resets>>

\* The position of Board.step in its loop, when the loop is observed block by block.
loopVars == <<in_step, pending>>

vars == <<N, p, wraparound, init_mode, constructed, pattern_origin, blocks_even,
          blocks_odd, grid, current_step, calls, prev_grid, last_block, tilings,
          twin, init_grid, size_slider, max_steps, paused, running, pauses,
          resets, in_step, pending>>

\* ------------------------------------------------------------------ cells
Cells(n) == (0 .. n - 1) \X (0 .. n - 1)

\* Cell.__init__: the states np.random.choice([0, 1], p=[1 - p, p]) can return.
CellStates(pr) == IF pr = 0 THEN {0} ELSE IF pr = 100 THEN {1} ELSE {0, 1}

\* Cell.flip: state ^= 1.
flip(s) == IF s = 0 THEN 1 ELSE 0

RECURSIVE KSubsets(_, _)
KSubsets(S, k) ==
    IF k = 0 THEN {{}}
    ELSE LET smaller == KSubsets(S, k - 1)
         IN  smaller \cup {s \cup {c} : s \in smaller, c \in S}

\* The grids [[Cell(p) for _ in range(N)] for _ in range(N)] can be.
RandomGrids(n, pr) ==
    IF Cardinality(CellStates(pr)) = 1
    THEN {[c \in Cells(n) |-> CHOOSE s \in CellStates(pr) : TRUE]}
    ELSE {[c \in Cells(n) |-> IF c \in alive THEN 1 ELSE 0] :
              alive \in KSubsets(Cells(n), MaxAlive)}

\* ------------------------------------------------------- initialisation
\* Board._initialize_odd_columns
initialize_odd_columns(n) ==
    [c \in Cells(n) |-> IF c[2] % 2 = 1 THEN 1 ELSE 0]

\* Board._initialize_diagonal_pattern
initialize_diagonal_pattern(n) ==
    [c \in Cells(n) |-> IF (c[1] + c[2]) % 2 = 1 THEN 1 ELSE 0]

\* Faulty variant of OddDraws: the + 1 is missing, the draws are even.
EvenDraws(high) == {2 * k : k \in 0 .. high - 1}

\* Faulty variant of OddDraws: an empty range is clamped to the single draw 0
\* instead of raising.
OddDrawsClamped(high) == {2 * k + 1 : k \in 0 .. (IF high > 0 THEN high - 1 ELSE 0)}

\* The values np.random.randint(0, high) * 2 + 1 can return; empty when the
\* draw raises ValueError (high <= 0).
OddDraws(high) == {2 * k + 1 : k \in 0 .. high - 1}

\* Faulty variant of PatternOrigins: the ranges of the draws are one too long.
PatternOriginsTooFar(n, pattern) ==
    LET height == Len(pattern)
        width == Len(pattern[1])
        max_top == n - height
        max_left == n - width
    IN  OddDraws((max_top + 2) \div 2) \X OddDraws((max_left + 2) \div 2)

\* Board._place_pattern: the (top, left) pairs the two draws can give.
PatternOrigins(n, pattern) ==
    LET height == Len(pattern)
        width == Len(pattern[1])
        max_top == n - height
        max_left == n - width
    IN  OddDraws((max_top + 1) \div 2) \X OddDraws((max_left + 1) \div 2)

\* Faulty variant of place_pattern: the cells outside the pattern are cleared.
place_pattern_clears(g, n, pattern, top, left) ==
    [c \in Cells(n) |->
        LET i == c[1] - top
            j == c[2] - left
        IN  IF /\ i \in 0 .. Len(pattern) - 1
               /\ j \in 0 .. Len(pattern[1]) - 1
            THEN pattern[i + 1][j + 1]
            ELSE 0]

\* Board._place_pattern: the stamping loop, for a drawn (top, left).
place_pattern(g, n, pattern, top, left) ==
    [c \in Cells(n) |->
        LET i == c[1] - top
            j == c[2] - left
        IN  IF /\ i \in 0 .. Len(pattern) - 1
               /\ j \in 0 .. Len(pattern[1]) - 1
            THEN pattern[i + 1][j + 1]
            ELSE g[c]]

\* Board._create_blocks: the loop from (i, j), in the order of the code.
RECURSIVE CreateBlocksFrom(_, _, _, _, _)
CreateBlocksFrom(n, wrap, start, i, j) ==
    IF i >= n THEN <<>>
    ELSE IF j >= n THEN CreateBlocksFrom(n, wrap, start, i + 2, start)
    ELSE (IF wrap \/ (i + 1 < n /\ j + 1 < n) THEN << <<i, j>> >> ELSE <<>>)
         \o CreateBlocksFrom(n, wrap, start, i, j + 2)

\* Faulty variant of create_blocks: the wraparound flag is ignored, so the
\* blocks that wrap over the edge are left out.
create_blocks_no_wrap(n, wrap, start) ==
    CreateBlocksFrom(n, FALSE, start, start, start)

\* Board._create_blocks
create_blocks(n, wrap, start) == CreateBlocksFrom(n, wrap, start, start, start)

\* ---------------------------------------------------------- block rule
\* Faulty variant of indices: the block spans three rows and columns, so
\* neighbouring blocks of a tiling share cells.
indices_wide(n, i, j) ==
    << <<i, j>>, <<i, (j + 2) % n>>,
       <<(i + 2) % n, j>>, <<(i + 2) % n, (j + 2) % n>> >>

\* The four (wrapped) indices of the block at (i, j): top-left, top-right,
\* bottom-left, bottom-right.
indices(n, i, j) ==
    << <<i, j>>, <<i, (j + 1) % n>>,
       <<(i + 1) % n, j>>, <<(i + 1) % n, (j + 1) % n>> >>

\* density = sum(cell.state for cell in cells)
density(g, idx) == g[idx[1]] + g[idx[2]] + g[idx[3]] + g[idx[4]]

\* for cell in cells: cell.flip(), one cell after the other.
RECURSIVE FlipFrom(_, _, _)
FlipFrom(g, idx, k) ==
    IF k > Len(idx) THEN g
    ELSE FlipFrom([g EXCEPT ![idx[k]] = flip(@)], idx, k + 1)

\* Faulty variant of swap: the first position is overwritten before it is read.
swap_overwrite(g, a, b) ==
    LET g1 == [g EXCEPT ![a] = g[b]]
    IN  [g1 EXCEPT ![b] = g1[a]]

\* a, b = b, a on two grid positions: both right-hand sides are read first,
\* then the two positions are assigned left to right.
swap(g, a, b) ==
    LET va == g[a]
        vb == g[b]
        g1 == [g EXCEPT ![a] = vb]
    IN  [g1 EXCEPT ![b] = va]

\* Faulty variant of rotate_flip: the cells are flipped but not swapped.
rotate_flip_no_swap(g, idx) == FlipFrom(g, idx, 1)

\* density == 3: swap the two diagonals, then flip the four cells.
rotate_flip(g, idx) ==
    FlipFrom(swap(swap(g, idx[1], idx[4]), idx[2], idx[3]), idx, 1)

\* Faulty variant of full_flip: the cells are also swapped diagonally.
full_flip_moves(g, idx) == rotate_flip(g, idx)

\* Faulty variant of full_flip: the first cell of the block is not flipped.
full_flip_skips_first(g, idx) == FlipFrom(g, idx, 2)

\* density in [0, 1, 4]: full flip.
full_flip(g, idx) == FlipFrom(g, idx, 1)

\* Faulty variant of stable: a density-2 block is flipped.
stable_flips(g, idx) == FlipFrom(g, idx, 1)

\* density == 2: stable block.
stable(g, idx) == g

\* Faulty variant of apply_block_rules: the edge check is missing.
apply_block_rules_no_guard(g, n, wrap, i, j) ==
    LET idx == indices(n, i, j)
        d == density(g, idx)
    IN  IF d = 2 THEN stable(g, idx)
        ELSE IF d \in {0, 1, 4} THEN full_flip(g, idx)
        ELSE IF d = 3 THEN rotate_flip(g, idx)
        ELSE g

\* Board.apply_block_rules
apply_block_rules(g, n, wrap, i, j) ==
    IF ~wrap /\ (i + 1 >= n \/ j + 1 >= n) THEN g
    ELSE LET idx == indices(n, i, j)
             d == density(g, idx)
         IN  IF d = 2 THEN stable(g, idx)
             ELSE IF d \in {0, 1, 4} THEN full_flip(g, idx)
             ELSE IF d = 3 THEN rotate_flip(g, idx)
             ELSE g

\* Board.step: for i, j in blocks: apply_block_rules(i, j), from block k on.
RECURSIVE StepFrom(_, _, _, _, _)
StepFrom(g, n, wrap, blocks, k) ==
    IF k > Len(blocks) THEN g
    ELSE StepFrom(apply_block_rules(g, n, wrap, blocks[k][1], blocks[k][2]),
                  n, wrap, blocks, k + 1)

\* Faulty variant of step_blocks: the two lists are exchanged.
step_blocks_swapped(even, be, bo) == IF even THEN bo ELSE be

\* Board.step: blocks = self.blocks_even if even else self.blocks_odd
step_blocks(even, be, bo) == IF even THEN be ELSE bo

\* Board.step
board_step(g, n, wrap, even, be, bo) ==
    StepFrom(g, n, wrap, step_blocks(even, be, bo), 1)

\* Faulty variant of step_even: the parity of the counter is not looked at.
step_even_stuck(cs) == cs >= 0

\* GameManager.step: even = (self.current_step % 2 == 0)
step_even(cs) == cs % 2 = 0

\* ------------------------------------------------------------ construction
\* Board.__init__ returned: fields of the new Board and GameManager.
Constructed(n, pr, wrap, mode, g, origin) ==
    /\ N = n
    /\ p = pr
    /\ wraparound = wrap
    /\ init_mode = mode
    /\ constructed = TRUE
    /\ pattern_origin = origin
    /\ blocks_even = create_blocks(n, wrap, 1)
    /\ blocks_odd = create_blocks(n, wrap, 0)
    /\ grid = g
    /\ current_step = 0
    /\ calls = 0
    /\ prev_grid = g
    /\ last_block = <<>>
    /\ tilings = <<>>
    /\ init_grid = g

\* _place_pattern raised (np.random.randint with an empty range): no Board
\* and no GameManager exist.
Failed(n, pr, wrap, mode) ==
    /\ N = n
    /\ p = pr
    /\ wraparound = wrap
    /\ init_mode = mode
    /\ constructed = FALSE
    /\ pattern_origin = <<>>
    /\ blocks_even = <<>>
    /\ blocks_odd = <<>>
    /\ grid = <<>>
    /\ current_step = 0
    /\ calls = 0
    /\ prev_grid = <<>>
    /\ last_block = <<>>
    /\ tilings = <<>>
    /\ init_grid = <<>>

\* Board.__init__: the [grid, origin] pairs the constructor can end with for
\* the grid g0 of drawn cells, with glider = Glider in mode "Glider" and
\* glider = None otherwise, as Simulator passes them; empty when
\* _place_pattern raises.
BoardsFrom(n, mode, g0) ==
    IF mode = "Glider"
    THEN {[grid |-> place_pattern(g0, n, Glider, o[1], o[2]), origin |-> o] :
              o \in PatternOrigins(n, Glider)}
    ELSE IF mode = "Odd Columns Alive"
    THEN {[grid |-> initialize_odd_columns(n), origin |-> <<>>]}
    ELSE IF mode = "Odd Diagonals Alive"
    THEN {[grid |-> initialize_diagonal_pattern(n), origin |-> <<>>]}
    ELSE {[grid |-> g0, origin |-> <<>>]}

\* Board.__init__: the [grid, origin] pairs the constructor can end with.
Boards(n, pr, mode) == UNION {BoardsFrom(n, mode, g0) : g0 \in RandomGrids(n, pr)}

\* GameManager.__init__ / Board.__init__ for the given arguments.
BoardInit(n, pr, wrap, mode) ==
    IF Boards(n, pr, mode) = {}
    THEN Failed(n, pr, wrap, mode)
    ELSE \E b \in Boards(n, pr, mode) :
            Constructed(n, pr, wrap, mode, b.grid, b.origin)

\* The default of GameManager.__init__ for max_steps.
DefaultMaxSteps == 250

\* No Simulator: the engine is driven directly.
NoSimulator ==
    /\ size_slider = N
    /\ max_steps = DefaultMaxSteps
    /\ paused = FALSE
    /\ running = FALSE
    /\ pauses = 0
    /\ resets = 0

\* Board.step is not inside its loop.
NoLoop == in_step = FALSE /\ pending = {}

\* GameManager.__init__ / Board.__init__, called directly.
InitBoard ==
    \E n \in Sizes, pr \in Probabilities, wrap \in BOOLEAN, mode \in InitModes :
        /\ Cardinality(CellStates(pr)) > 1 => n * n <= MaxRandomCells
        /\ BoardInit(n, pr, wrap, mode)
        /\ NoSimulator
        /\ NoLoop

\* One engine.
Init == InitBoard /\ twin = <<>>

\* The grid g with the cells of D flipped.
Toggle(g, D) == [c \in DOMAIN g |-> IF c \in D THEN flip(g[c]) ELSE g[c]]

\* The grids that differ from g in some cells of one 2x2 block.
TwinGrids(g, n) ==
    {Toggle(g, D) : D \in UNION {SUBSET {idx[k] : k \in 1 .. 4} \ {{}} :
                                    idx \in {indices(n, c[1], c[2]) : c \in Cells(n)}}}

\* Two engines built with the same N and wraparound whose grids differ.
InitPair ==
    /\ InitBoard
    /\ constructed
    /\ Cardinality(CellStates(p)) > 1 => N * N <= MaxPairCells
    /\ twin \in TwinGrids(grid, N)

\* ---------------------------------------------------------------- actions
\* GameManager.step, on the engine (and on the second one, when there is one).
Step ==
    /\ constructed
    /\ current_step < MaxSteps
    /\ LET even == step_even(current_step)
       IN  /\ grid' = board_step(grid, N, wraparound, even, blocks_even, blocks_odd)
           /\ tilings' = Append(tilings,
                  [even |-> even, blocks |-> step_blocks(even, blocks_even, blocks_odd)])
    /\ current_step' = current_step + 1
    /\ prev_grid' = grid
    /\ twin' = IF twin = <<>> THEN twin
               ELSE board_step(twin, N, wraparound, step_even(current_step),
                               blocks_even, blocks_odd)
    /\ last_block' = <<>>
    /\ UNCHANGED <<N, p, wraparound, init_mode, constructed, pattern_origin,
                   blocks_even, blocks_odd, calls, init_grid>>
    /\ UNCHANGED <<simVars, loopVars>>

\* Board.apply_block_rules(i, j), called on its own.
ApplyBlockRules(i, j) ==
    /\ constructed
    /\ calls < MaxCalls
    /\ grid' = apply_block_rules(grid, N, wraparound, i, j)
    /\ calls' = calls + 1
    /\ prev_grid' = grid
    /\ last_block' = <<i, j>>
    /\ UNCHANGED <<N, p, wraparound, init_mode, constructed, pattern_origin,
                   blocks_even, blocks_odd, current_step, tilings, twin, init_grid>>
    /\ UNCHANGED <<simVars, loopVars>>

Next == Step

Spec == Init /\ [][Next]_vars

NextBlock == \E i \in 0 .. N - 1, j \in 0 .. N - 1 : ApplyBlockRules(i, j)

SpecBlock == Init /\ [][NextBlock]_vars

SpecPair == InitPair /\ [][Next]_vars

\* Board.apply_block_rules(i, j) called on an origin of the last row or of
\* the last column.
CallPastEdge ==
    \E i, j \in 0 .. N - 1 :
        /\ i + 1 >= N \/ j + 1 >= N
        /\ ApplyBlockRules(i, j)

\* GameManager.step and calls of apply_block_rules on edge origins, in any
\* order.
NextEdge == Step \/ CallPastEdge

\* Boards without wraparound.
InitEdge == Init /\ ~wraparound

SpecEdge == InitEdge /\ [][NextEdge]_vars

\* ------------------------------------------------------------- Simulator
\* Faulty variant of round_even: the size is passed on as the slider gives it.
round_even_none(size) == size

\* Simulator.start_simulation: size = size if size % 2 == 0 else size + 1
round_even(size) == IF size % 2 = 0 THEN size ELSE size + 1

\* Simulator.start_simulation: probability is 1.0 in Glider mode.
sim_probability(mode, pr) == IF mode = "Glider" THEN 100 ELSE pr

\* Faulty variant of reset_mode: init_mode is not passed, the default is used.
reset_mode_default(mode) == "Random"

\* Simulator.run_simulation, Reset: init_mode = self.init_mode
reset_mode(mode) == mode

\* Faulty variant of loop_steps: the bound is compared with <=.
loop_steps_inclusive(cs, max, pause) == cs <= max /\ ~pause

\* Simulator.run_simulation: current_step < max_steps and not paused
loop_steps(cs, max, pause) == cs < max /\ ~pause

\* Faulty variant of loop_stops: the loop goes on at current_step = max_steps.
loop_stops_late(cs, max) == cs > max

\* Simulator.run_simulation: the else branch, taken when current_step is not
\* below max_steps (paused or not).
loop_stops(cs, max) == ~(cs < max)

\* Simulator.start_simulation up to the call of run_simulation, and the first
\* two lines of run_simulation. When the constructor raises, the run loop is
\* never entered.
InitSim ==
    \E s \in SliderSizes, pr \in Probabilities, gens \in 1 .. MaxGenerations,
       wrap \in BOOLEAN, mode \in InitModes :
        LET size == round_even(s)
            probability == sim_probability(mode, pr)
        IN  /\ Cardinality(CellStates(probability)) > 1 => size * size <= MaxSimCells
            /\ BoardInit(size, probability, wrap, mode)
            /\ size_slider = s
            /\ max_steps = gens
            /\ paused = FALSE
            /\ running = constructed
            /\ pauses = 0
            /\ resets = 0
            /\ NoLoop
            /\ twin = <<>>

\* run_simulation: the Play/Pause button is pressed.
PressPlayPause ==
    /\ running
    /\ paused \/ pauses < MaxPauses
    /\ paused' = ~paused
    /\ pauses' = IF paused THEN pauses ELSE pauses + 1
    /\ UNCHANGED <<N, p, wraparound, init_mode, constructed, pattern_origin,
                   blocks_even, blocks_odd, grid, current_step, calls, prev_grid,
                   last_block, tilings, twin, init_grid, size_slider, max_steps,
                   running, resets, loopVars>>

\* run_simulation: the Reset button is pressed; the board is replaced by
\* Board(N, p, wraparound, glider, init_mode). prev_grid keeps the grid of
\* the board that is dropped; the log of tilings starts again.
PressReset ==
    /\ running
    /\ resets < MaxResets
    /\ Boards(N, p, reset_mode(init_mode)) # {}
    /\ paused' = TRUE
    /\ current_step' = 0
    /\ \E b \in Boards(N, p, reset_mode(init_mode)) :
           /\ grid' = b.grid
           /\ pattern_origin' = b.origin
    /\ blocks_even' = create_blocks(N, wraparound, 1)
    /\ blocks_odd' = create_blocks(N, wraparound, 0)
    /\ prev_grid' = grid
    /\ last_block' = <<>>
    /\ resets' = resets + 1
    /\ tilings' = <<>>
    /\ UNCHANGED <<N, p, wraparound, init_mode, constructed, calls, twin,
                   init_grid, size_slider, max_steps, running, pauses,
                   loopVars>>

\* run_simulation: the loop body after the events, when it steps.
TickStep ==
    /\ running
    /\ loop_steps(current_step, max_steps, paused)
    /\ Step

\* run_simulation: the loop body after the events, when it ends the loop.
\* (While paused below max_steps the body only draws: no state changes.)
TickStop ==
    /\ running
    /\ loop_stops(current_step, max_steps)
    /\ running' = FALSE
    /\ UNCHANGED <<N, p, wraparound, init_mode, constructed, pattern_origin,
                   blocks_even, blocks_odd, grid, current_step, calls, prev_grid,
                   last_block, tilings, twin, init_grid, size_slider, max_steps,
                   paused, pauses, resets, loopVars>>

NextSim == PressPlayPause \/ PressReset \/ TickStep \/ TickStop

\* One run of start_simulation and run_simulation, with the window left open
\* (a QUIT event ends the process).
SpecSim == InitSim /\ [][NextSim]_vars

\* What TickStep does to the counter. TickStep is enabled exactly when
\* StepsCounter is, and it is the only action of NextSim that is a
\* StepsCounter step.
StepsCounter ==
    /\ running
    /\ loop_steps(current_step, max_steps, paused)
    /\ constructed
    /\ current_step < MaxSteps
    /\ current_step' = current_step + 1

\* The loop body runs at every frame (weak fairness of TickStep, stated on
\* the counter, and of TickStop), and a paused run is resumed.
FairSpecSim ==
    /\ SpecSim
    /\ WF_current_step(StepsCounter)
    /\ WF_vars(TickStop)
    /\ WF_vars(paused /\ PressPlayPause)

\* ------------------------------------------------ a step in any block order
\* GameManager.step and Board.step up to the loop: the counter's parity picks
\* the list, whose origins are all still to be processed.
BeginStep ==
    /\ constructed
    /\ ~in_step
    /\ current_step < MaxOrderSteps
    /\ in_step' = TRUE
    /\ pending' = LET blocks == step_blocks(step_even(current_step),
                                            blocks_even, blocks_odd)
                  IN  {blocks[k] : k \in DOMAIN blocks}
    /\ prev_grid' = grid
    /\ last_block' = <<>>
    /\ UNCHANGED <<N, p, wraparound, init_mode, constructed, pattern_origin,
                   blocks_even, blocks_odd, grid, current_step, calls, tilings,
                   twin, init_grid, simVars>>

\* One iteration of the loop of Board.step, on any origin not yet processed.
ApplyPending ==
    /\ in_step
    /\ \E b \in pending :
           /\ grid' = apply_block_rules(grid, N, wraparound, b[1], b[2])
           /\ pending' = pending \ {b}
           /\ last_block' = b
    /\ UNCHANGED <<N, p, wraparound, init_mode, constructed, pattern_origin,
                   blocks_even, blocks_odd, current_step, calls, prev_grid,
                   tilings, twin, init_grid, simVars, in_step>>

\* The loop of Board.step is over: GameManager.step increments the counter.
EndStep ==
    /\ in_step
    /\ pending = {}
    /\ in_step' = FALSE
    /\ current_step' = current_step + 1
    /\ tilings' = Append(tilings,
           [even |-> step_even(current_step),
            blocks |-> step_blocks(step_even(current_step), blocks_even, blocks_odd)])
    /\ UNCHANGED <<N, p, wraparound, init_mode, constructed, pattern_origin,
                   blocks_even, blocks_odd, grid, calls, prev_grid, last_block,
                   twin, init_grid, simVars, pending>>

InitOrder == Init /\ N * N <= MaxOrderCells

NextOrder == BeginStep \/ ApplyPending \/ EndStep

\* GameManager.step with the blocks of the active list taken in any order.
SpecOrder == InitOrder /\ [][NextOrder]_vars

\* ------------------------------------------------------------- properties
\* The cell at offset (di, dj) of the block with origin b, wrapped modulo N.
BlockCell(b, di, dj) == <<(b[1] + di) % N, (b[2] + dj) % N>>
TopLeft(b) == BlockCell(b, 0, 0)
TopRight(b) == BlockCell(b, 0, 1)
BottomLeft(b) == BlockCell(b, 1, 0)
BottomRight(b) == BlockCell(b, 1, 1)
BlockCells(b) == {TopLeft(b), TopRight(b), BottomLeft(b), BottomRight(b)}

\* The block with origin b lies in the grid, or wraps over its edge legally.
BlockInGrid(b) == wraparound \/ (b[1] + 1 < N /\ b[2] + 1 < N)

\* Number of alive cells of g among the cells S.
Alive(g, S) == Cardinality({c \in S : g[c] = 1})

\* apply_block_rules has just been called on the block last_block.
Called == constructed /\ last_block # <<>>

\* The elements of a sequence.
SetOf(seq) == {seq[k] : k \in DOMAIN seq}

\* C1: a block with exactly three alive cells is rotated by 180 degrees and
\* complemented: each position ends with the complement of the value its
\* diagonal opposite held, so exactly one cell of the block ends alive.
C1_Density3RotatedAndComplemented ==
    (Called /\ BlockInGrid(last_block)
            /\ Alive(prev_grid, BlockCells(last_block)) = 3)
    => LET b == last_block
       IN  /\ grid[TopLeft(b)] = 1 - prev_grid[BottomRight(b)]
           /\ grid[BottomRight(b)] = 1 - prev_grid[TopLeft(b)]
           /\ grid[TopRight(b)] = 1 - prev_grid[BottomLeft(b)]
           /\ grid[BottomLeft(b)] = 1 - prev_grid[TopRight(b)]
           /\ Alive(grid, BlockCells(b)) = 1

\* C1 witness: the rule has acted on a density-3 block that wraps over the edge.
C1_Witness ==
    /\ Called /\ wraparound /\ N = 4
    /\ last_block = <<3, 3>>
    /\ Alive(prev_grid, BlockCells(last_block)) = 3
    /\ prev_grid[TopLeft(last_block)] = 0
    /\ grid[BottomRight(last_block)] = 1

\* The block last_block held top-left = 1, top-right = 1, bottom-left = 1,
\* bottom-right = 0 before the call.
Block1110 ==
    /\ Called /\ BlockInGrid(last_block)
    /\ prev_grid[TopLeft(last_block)] = 1
    /\ prev_grid[TopRight(last_block)] = 1
    /\ prev_grid[BottomLeft(last_block)] = 1
    /\ prev_grid[BottomRight(last_block)] = 0

\* C2 as stated: the block [1,1,1,0] ends with all four cells dead.
C2_Original ==
    Block1110 =>
        /\ grid[TopLeft(last_block)] = 0
        /\ grid[BottomRight(last_block)] = 0
        /\ grid[TopRight(last_block)] = 0
        /\ grid[BottomLeft(last_block)] = 0

\* C2 amended: the block [1,1,1,0] ends with top-left = 1 (the complement of
\* the old bottom-right) and the three other cells dead.
C2_Block1110EndsTopLeftAlive ==
    Block1110 =>
        /\ grid[TopLeft(last_block)] = 1
        /\ grid[BottomRight(last_block)] = 0
        /\ grid[TopRight(last_block)] = 0
        /\ grid[BottomLeft(last_block)] = 0

\* C2 witness: the rule has acted on a block [1,1,1,0].
C2_Witness == Block1110 /\ grid # prev_grid

\* The origins that start at (start, start) and advance by 2 in both
\* directions, restricted to the blocks of the grid.
OriginsFrom(start) ==
    {b \in Cells(N) : /\ b[1] >= start /\ (b[1] - start) % 2 = 0
                      /\ b[2] >= start /\ (b[2] - start) % 2 = 0
                      /\ BlockInGrid(b)}

\* C3 as stated: the step taken with an even counter (the first one included)
\* uses the origins that start at (0,0), the step taken with an odd counter
\* those that start at (1,1).
C3_Original ==
    constructed =>
        \A k \in DOMAIN tilings :
            /\ tilings[k].even = ((k - 1) % 2 = 0)
            /\ SetOf(tilings[k].blocks) =
                   IF (k - 1) % 2 = 0 THEN OriginsFrom(0) ELSE OriginsFrom(1)

\* C3 amended: the tiling is selected by the parity of current_step, and the
\* step taken with an even counter (the first one included) uses the origins
\* that start at (1,1), the step taken with an odd counter those that start
\* at (0,0).
C3_EvenCounterUsesOffsetTiling ==
    constructed =>
        \A k \in DOMAIN tilings :
            /\ tilings[k].even = ((k - 1) % 2 = 0)
            /\ SetOf(tilings[k].blocks) =
                   IF (k - 1) % 2 = 0 THEN OriginsFrom(1) ELSE OriginsFrom(0)

\* C3 witness: steps with counter 0, 1 and 2 were taken on a board whose two
\* tilings are both non-empty.
C3_Witness ==
    /\ constructed /\ N = 4 /\ Len(tilings) = 3
    /\ <<1, 1>> \in SetOf(tilings[1].blocks)
    /\ <<0, 0>> \in SetOf(tilings[2].blocks)
    /\ <<3, 3>> \in SetOf(tilings[3].blocks)

\* Glider mode on an all-dead wraparound grid of even size.
GliderOnEmptyTorus ==
    /\ constructed /\ init_mode = "Glider" /\ p = 0
    /\ wraparound /\ N % 2 = 0

\* C4 as stated: the grid holds exactly 4 alive cells after every step.
C4_Original ==
    (GliderOnEmptyTorus /\ current_step >= 1) => Alive(grid, Cells(N)) = 4

\* C4 amended: the grid holds exactly 4 alive cells after every even number of
\* steps and exactly N*N - 4 alive cells after every odd number of steps.
C4_GliderAliveCountAlternates ==
    GliderOnEmptyTorus =>
        Alive(grid, Cells(N)) = IF current_step % 2 = 0 THEN 4 ELSE N * N - 4

\* C4 witness: the stamped glider has been stepped four times.
C4_Witness ==
    /\ GliderOnEmptyTorus /\ current_step = 4
    /\ Alive(grid, Cells(N)) = 4 /\ Alive(prev_grid, Cells(N)) = N * N - 4

\* The cells of the h x w rectangle stamped at pattern_origin.
StampedCells ==
    {c \in Cells(N) : /\ c[1] - pattern_origin[1] \in 0 .. Len(Glider) - 1
                      /\ c[2] - pattern_origin[2] \in 0 .. Len(Glider[1]) - 1}

\* A Board has just been constructed in pattern-stamp mode.
JustStamped ==
    /\ constructed /\ init_mode = "Glider"
    /\ current_step = 0 /\ calls = 0

\* C5 as stated: after construction in pattern-stamp mode every cell outside
\* the stamped rectangle is dead, whatever p is.
C5_Original ==
    JustStamped => \A c \in Cells(N) \ StampedCells : grid[c] = 0

\* C5 amended: after construction in pattern-stamp mode every cell outside the
\* stamped rectangle holds the state drawn for it with probability p: dead
\* when p = 0, alive when p = 1.0.
C5_OutsideCellsKeepTheirDraw ==
    JustStamped =>
        /\ \A c \in Cells(N) \ StampedCells :
               /\ p = 0 => grid[c] = 0
               /\ p = 100 => grid[c] = 1
        /\ \A c \in StampedCells :
               grid[c] = Glider[c[1] - pattern_origin[1] + 1][c[2] - pattern_origin[2] + 1]

\* C5 witness: a glider stamped with p = 1.0 on a grid larger than the pattern.
C5_Witness ==
    /\ JustStamped /\ p = 100 /\ pattern_origin = <<3, 5>>
    /\ Cardinality(StampedCells) = 8
    /\ grid[<<0, 0>>] = 1

\* The number of blocks of the list that contain the cell c.
BlocksHolding(blocks, c) ==
    Cardinality({k \in DOMAIN blocks : c \in BlockCells(blocks[k])})

\* C6: for even N with wraparound, every cell lies in exactly one block of the
\* start=0 list (blocks_odd) and in exactly one block of the start=1 list
\* (blocks_even).
C6_BothListsTileTheGrid ==
    (constructed /\ wraparound /\ N % 2 = 0) =>
        /\ \A c \in Cells(N) : BlocksHolding(blocks_odd, c) = 1
        /\ \A c \in Cells(N) : BlocksHolding(blocks_even, c) = 1
        /\ blocks_odd[1] = <<0, 0>>
        /\ blocks_even[1] = <<1, 1>>

\* C6 witness: a wraparound board of even size whose start=1 list holds a
\* block that wraps over both edges.
C6_Witness ==
    /\ constructed /\ wraparound /\ N = 6
    /\ <<5, 5>> \in SetOf(blocks_even)
    /\ BlocksHolding(blocks_even, <<0, 0>>) = 1

\* C7: the counter equals the number of step calls made, and two consecutive
\* calls never use the same block-origin list.
C7_ConsecutiveStepsAlternate ==
    constructed =>
        /\ current_step = Len(tilings)
        /\ \A k \in 1 .. Len(tilings) - 1 :
               /\ tilings[k].even # tilings[k + 1].even
               /\ tilings[k].blocks # tilings[k + 1].blocks

\* C7 witness: three consecutive steps were taken.
C7_Witness ==
    /\ constructed /\ current_step = 3 /\ Len(tilings) = 3
    /\ tilings[1].blocks = blocks_even
    /\ tilings[2].blocks = blocks_odd

\* C8: a step is reversible: two engines of the same size and wraparound
\* whose grids differ, stepped with the same tilings, never reach equal grids
\* (on the 2 x 2 wraparound board the grid is one block, so this is the
\* injectivity of the block rule on its 16 configurations).
C8_StepIsInjective ==
    (constructed /\ twin # <<>>) => twin # grid

\* C8 witness: two different grids have been stepped with both tilings of a
\* board without wraparound; the steps changed the grid and the two grids
\* still differ, in more than one cell.
C8_Witness ==
    /\ constructed /\ twin # <<>> /\ N = 4 /\ ~wraparound
    /\ current_step = 2 /\ grid # prev_grid
    /\ Cardinality({c \in Cells(N) : twin[c] # grid[c]}) > 1

\* C9: a block with exactly two alive cells is left unchanged, and so is
\* every cell outside it.
C9_Density2Unchanged ==
    (Called /\ Alive(prev_grid, BlockCells(last_block)) = 2) => grid = prev_grid

\* C9 witness: the rule was called on a density-2 block of a grid that has an
\* alive cell outside the block.
C9_Witness ==
    /\ Called /\ BlockInGrid(last_block) /\ N = 4
    /\ Alive(prev_grid, BlockCells(last_block)) = 2
    /\ Alive(prev_grid, Cells(N) \ BlockCells(last_block)) = 1
    /\ grid = prev_grid

\* C10: in a block of density 0, 1 or 4 every cell is replaced by the
\* complement of its own previous value, so the block's alive count becomes
\* 4 minus the original count.
C10_Density014Complemented ==
    (Called /\ BlockInGrid(last_block)
            /\ Alive(prev_grid, BlockCells(last_block)) \in {0, 1, 4})
    => /\ \A c \in BlockCells(last_block) : grid[c] = 1 - prev_grid[c]
       /\ Alive(grid, BlockCells(last_block)) =
              4 - Alive(prev_grid, BlockCells(last_block))

\* C10 witness: the rule has complemented a block that held one alive cell,
\* in its top-right corner.
C10_Witness ==
    /\ Called /\ BlockInGrid(last_block)
    /\ Alive(prev_grid, BlockCells(last_block)) = 1
    /\ prev_grid[TopRight(last_block)] = 1
    /\ Alive(grid, BlockCells(last_block)) = 3
    /\ grid[TopRight(last_block)] = 0

\* The odd-aligned origins at which an h x w pattern fits in the N x N grid.
OddFits(h, w) ==
    {o \in (0 .. N) \X (0 .. N) : /\ o[1] % 2 = 1 /\ o[2] % 2 = 1
                                  /\ o[1] + h <= N /\ o[2] + w <= N}

\* C11: when _place_pattern succeeds, top and left are odd and the pattern
\* fits in the grid, and the origins the draws can give are exactly the
\* odd-aligned origins that fit.
C11_OriginOddAndFits ==
    (constructed /\ init_mode = "Glider") =>
        /\ pattern_origin[1] % 2 = 1 /\ pattern_origin[2] % 2 = 1
        /\ pattern_origin[1] + Len(Glider) <= N
        /\ pattern_origin[2] + Len(Glider[1]) <= N
        /\ PatternOrigins(N, Glider) = OddFits(Len(Glider), Len(Glider[1]))

\* C11 witness: the pattern was stamped at the last origin that fits in a
\* grid of odd size.
C11_Witness ==
    /\ constructed /\ init_mode = "Glider" /\ N = 5
    /\ pattern_origin = <<1, 3>>
    /\ grid[<<4, 4>>] = Glider[4][2]

\* C12: when no odd-aligned origin lets the pattern fit, construction in
\* pattern-stamp mode ends in an error: no Board, stamped or partially
\* stamped, exists.
C12_NoFitRaises ==
    (init_mode = "Glider" /\ OddFits(Len(Glider), Len(Glider[1])) = {}) =>
        /\ ~constructed
        /\ grid = <<>>

\* C12 witness: construction in Glider mode with N equal to the pattern's
\* height has failed.
C12_Witness ==
    /\ init_mode = "Glider" /\ N = Len(Glider)
    /\ OddFits(Len(Glider), Len(Glider[1])) = {}
    /\ ~constructed

\* C13 as stated: no Board whose size is odd or non-positive is constructed.
C13_Original ==
    constructed => (N > 0 /\ N % 2 = 0)

\* C14: every board of a Simulator run, the one start_simulation builds and
\* the one Reset builds, has an even size N: N is the requested size when that
\* is even and the requested size plus one when it is odd, and the grid and
\* both origin lists are those of an N x N board.
C14_SimulatorSizeIsEven ==
    /\ N % 2 = 0
    /\ N = (IF size_slider % 2 = 0 THEN size_slider ELSE size_slider + 1)
    /\ constructed =>
           /\ DOMAIN grid = Cells(N)
           /\ blocks_even = create_blocks(N, wraparound, 1)
           /\ blocks_odd = create_blocks(N, wraparound, 0)

\* An odd request of 5 gave a 6 x 6 board, and Reset has rebuilt it.
C14_Witness ==
    /\ constructed
    /\ size_slider = 5
    /\ N = 6
    /\ resets = 1
    /\ DOMAIN grid = Cells(6)

\* C15: whenever Reset is pressed, current_step becomes 0, the board
\* parameters N, p, wraparound and init_mode and both origin lists stay as they
\* were, the new grid is one that Board(N, p, wraparound, init_mode) can build,
\* and in the modes Odd Columns Alive and Odd Diagonals Alive the new grid is
\* cell for cell the grid of the original construction.
C15_ResetRestoresConstruction ==
    [][resets' = resets + 1 =>
          /\ current_step' = 0
          /\ paused'
          /\ N' = N /\ p' = p /\ wraparound' = wraparound /\ init_mode' = init_mode
          /\ blocks_even' = blocks_even
          /\ blocks_odd' = blocks_odd
          /\ LET fresh == {b.grid : b \in Boards(N, p, init_mode)}
             IN  grid' \in fresh /\ init_grid \in fresh
          /\ init_mode \in {"Odd Columns Alive", "Odd Diagonals Alive"} =>
                 grid' = init_grid]_vars

\* Reset was pressed on a glider board that steps had changed (its grid was
\* no grid a construction gives), and the new board is a fresh glider board.
C15_Witness ==
    /\ resets = 1
    /\ current_step = 0
    /\ paused
    /\ init_mode = "Glider"
    /\ prev_grid \notin {b.grid : b \in Boards(N, p, init_mode)}
    /\ grid \in {b.grid : b \in Boards(N, p, init_mode)}

\* C18: in a Simulator run, whatever the order of Play/Pause presses, Reset
\* presses and loop iterations, 0 <= current_step <= max_steps in every
\* reachable state.
C18_CounterWithinMaxSteps ==
    /\ 0 <= current_step
    /\ current_step <= max_steps

\* The run was paused, reset and resumed, and has stopped at max_steps.
C18_Witness ==
    /\ constructed
    /\ ~running
    /\ pauses = 1
    /\ resets = 1
    /\ max_steps = 2
    /\ current_step = max_steps
    /\ Len(tilings) = max_steps

\* Once the run loop stops, the counter is max_steps and never moves again.
Finished == ~running /\ current_step = max_steps

C16_BlockOrderImmaterial ==
    (constructed /\ in_step /\ pending = {} /\ wraparound /\ N % 2 = 0)
        => grid = board_step(prev_grid, N, wraparound, step_even(current_step),
                             blocks_even, blocks_odd)

\* A step of a 4 x 4 torus with the offset list whose last processed block is
\* the first one of the list, and that changed the grid.
C16_Witness ==
    /\ constructed /\ in_step /\ pending = {}
    /\ wraparound
    /\ N = 4
    /\ step_even(current_step)
    /\ last_block = blocks_even[1]
    /\ \E c \in Cells(N) : prev_grid[c] = 1 /\ grid[c] = 1
    /\ grid # prev_grid

\* The cells of row 0, row n - 1, column 0 and column n - 1.
Boundary(n) == {c \in Cells(n) : c[1] \in {0, n - 1} \/ c[2] \in {0, n - 1}}

\* The last operation was a GameManager.step that used the (1,1)-offset list.
SteppedOffset ==
    /\ last_block = <<>>
    /\ Len(tilings) >= 1
    /\ tilings[Len(tilings)].even

\* C17: without wraparound and for even N, (a) no origin of either list lies
\* on the last row or column, (b) a call of apply_block_rules on an origin of
\* the last row or column leaves the grid as it was, and (c) a step with the
\* (1,1)-offset list leaves every cell of the outer rows and columns as it was.
C17_NoBlockPastTheEdge ==
    (constructed /\ ~wraparound /\ N % 2 = 0) =>
        /\ \A b \in SetOf(blocks_even) \cup SetOf(blocks_odd) : BlockInGrid(b)
        /\ (last_block # <<>> /\ ~BlockInGrid(last_block)) => grid = prev_grid
        /\ SteppedOffset => \A c \in Boundary(N) : grid[c] = prev_grid[c]

\* On a 4 x 4 board without wraparound, a step with the offset list changed
\* inner cells only, and the call on the corner origin (3, 3) that followed
\* changed nothing.
C17_Witness ==
    /\ constructed /\ ~wraparound
    /\ N = 4
    /\ current_step = 1
    /\ last_block = <<3, 3>>
    /\ grid = prev_grid
    /\ grid # init_grid
    /\ \A c \in Boundary(N) : grid[c] = init_grid[c]
    /\ \E c \in Boundary(N) : grid[c] = 1

\* C20: for even N, with or without wraparound, a board built in Odd Columns
\* Alive or Odd Diagonals Alive mode has, after any number of steps, the grid
\* it was built with, and every block of both origin lists holds exactly two
\* alive cells.
C20_PatternsAreFixedPoints ==
    (/\ constructed
     /\ N % 2 = 0
     /\ init_mode \in {"Odd Columns Alive", "Odd Diagonals Alive"}) =>
        /\ grid = init_grid
        /\ grid = (IF init_mode = "Odd Columns Alive"
                      THEN initialize_odd_columns(N)
                      ELSE initialize_diagonal_pattern(N))
        /\ \A b \in SetOf(blocks_even) \cup SetOf(blocks_odd) :
               Alive(grid, BlockCells(b)) = 2

\* Three steps (two with the offset list, one with the aligned list) were
\* taken on a 6 x 6 torus built in Odd Diagonals Alive mode.
C20_Witness ==
    /\ constructed
    /\ N = 6
    /\ wraparound
    /\ init_mode = "Odd Diagonals Alive"
    /\ current_step = 3
    /\ Len(tilings) = 3
    /\ grid = init_grid
    /\ \E c \in Cells(N) : grid[c] = 1

====
